---- MODULE Spec2Model ----
(***************************************************************************)
(* Near-Earth objects and close approaches: the entity model (models.py)   *)
(* and the loaders (extract.py), with the linking step of the database     *)
(* and the date helpers they call.                                         *)
(*                                                                         *)
(* Text that the code parses is a sequence of one-character strings        *)
(* (<<"1", ".", "5">>); text that the code only builds is a sequence of    *)
(* fragments.  A float is held in thousandths.                             *)
(***************************************************************************)
EXTENDS Integers, Sequences, FiniteSets, TLC

VARIABLES
    neoCsv,      \* rows of the CSV file load_neos has read
    cadJson,     \* rows of the JSON file load_approaches has read
    heap,        \* the objects alive: NearEarthObjects, CloseApproaches, lists
    neos,        \* what load_neos returned
    approaches,  \* what load_approaches returned
    db,          \* the NEODatabase
    out          \* the outcome of the last constructor, str() or repr() call

vars == <<neoCsv, cadJson, heap, neos, approaches, db, out>>

\* ------------------------------------------------------------------ bounds

MaxRows == 2
MaxObjs == 2

\* ----------------------------------------------------------- Python values

NoneVal == [t |-> "NoneType", s |-> <<>>, n |-> 0]
Absent == [t |-> "absent", s |-> <<>>, n |-> 0]
Str(s) == [t |-> "str", s |-> s, n |-> 0]
Float(n) == [t |-> "float", s |-> <<>>, n |-> n]
NaN == [t |-> "float", s |-> <<"n", "a", "n">>, n |-> 0]
Bool(b) == [t |-> "bool", s |-> <<>>, n |-> IF b THEN 1 ELSE 0]

IsNaN(v) == v.t = "float" /\ v.s # <<>>

Ok(v) == [exc |-> "", val |-> v]
Raise(e) == [exc |-> e, val |-> NoneVal]

\* item[key] on a row: a key the row lacks raises KeyError.
GetItem(item, key) == IF item[key] = Absent THEN Raise("KeyError") ELSE Ok(item[key])

\* Truth value testing of `if x` and bool(x).
Truthy(v) ==
    CASE v.t = "NoneType" -> FALSE
      [] v.t = "str" -> Len(v.s) > 0
      [] v.t = "bool" -> v.n = 1
      [] v.t = "float" -> IsNaN(v) \/ v.n # 0
      [] OTHER -> TRUE

PyBool(v) == Bool(Truthy(v))

\* str(x) of a string is the string; None gives "None".
PyStr(v) ==
    CASE v.t = "str" -> v
      [] v.t = "NoneType" -> Str(<<"N", "o", "n", "e">>)
      [] v.t = "bool" -> Str(IF v.n = 1 THEN <<"T", "r", "u", "e">>
                                        ELSE <<"F", "a", "l", "s", "e">>)
      [] OTHER -> Str(<<"?">>)

\* --------------------------------------------------------------- float(x)

Digits == <<"0", "1", "2", "3", "4", "5", "6", "7", "8", "9">>
IsDigit(c) == \E i \in 1..10 : Digits[i] = c
DigitVal(c) == (CHOOSE i \in 1..10 : Digits[i] = c) - 1

Lower(c) ==
    CASE c = "N" -> "n"
      [] c = "A" -> "a"
      [] c = "Y" -> "y"
      [] OTHER -> c

RECURSIVE LStrip(_)
LStrip(s) == IF s # <<>> /\ Head(s) = " " THEN LStrip(Tail(s)) ELSE s

RECURSIVE RStrip(_)
RStrip(s) ==
    IF s # <<>> /\ s[Len(s)] = " " THEN RStrip(SubSeq(s, 1, Len(s) - 1)) ELSE s

Strip(s) == RStrip(LStrip(s))

AllDigits(s) == \A i \in 1..Len(s) : IsDigit(s[i])

RECURSIVE IntVal(_)
IntVal(s) ==
    IF s = <<>> THEN 0 ELSE 10 * IntVal(SubSeq(s, 1, Len(s) - 1)) + DigitVal(s[Len(s)])

\* The fraction digits as thousandths.
FracMilli(s) ==
    LET d(i) == IF i <= Len(s) THEN DigitVal(s[i]) ELSE 0
    IN 100 * d(1) + 10 * d(2) + d(3)

DotAt(s) == IF \E i \in 1..Len(s) : s[i] = "."
            THEN CHOOSE i \in 1..Len(s) : s[i] = "." /\ \A j \in 1..(i - 1) : s[j] # "."
            ELSE 0

\* An unsigned decimal literal: digits, with at most one point, at least one digit.
IsDecimal(s) ==
    LET p == DotAt(s)
    IN IF p = 0
       THEN s # <<>> /\ AllDigits(s)
       ELSE /\ AllDigits(SubSeq(s, 1, p - 1))
            /\ AllDigits(SubSeq(s, p + 1, Len(s)))
            /\ Len(s) > 1

DecimalMilli(s) ==
    LET p == DotAt(s)
    IN IF p = 0
       THEN 1000 * IntVal(s)
       ELSE 1000 * IntVal(SubSeq(s, 1, p - 1)) + FracMilli(SubSeq(s, p + 1, Len(s)))

\* float(s) of a string: surrounding blanks and a sign are allowed, "nan" in
\* any case is not-a-number, anything else that is no decimal is a ValueError.
ParseFloat(s) ==
    LET b == Strip(s)
        signed == b # <<>> /\ Head(b) \in {"-", "+"}
        u == IF signed THEN Tail(b) ELSE b
        sign == IF signed /\ Head(b) = "-" THEN -1 ELSE 1
        low == [i \in 1..Len(u) |-> Lower(u[i])]
    IN IF low = <<"n", "a", "n">> THEN Ok(NaN)
       ELSE IF IsDecimal(u) THEN Ok(Float(sign * DecimalMilli(u)))
       ELSE Raise("ValueError")

PyFloat(v) ==
    CASE v.t = "float" -> Ok(v)
      [] v.t = "bool" -> Ok(Float(1000 * v.n))
      [] v.t = "str" -> ParseFloat(v.s)
      [] OTHER -> Raise("TypeError")

\* ------------------------------------------------------ number formatting

RECURSIVE NatStr(_)
NatStr(n) == IF n < 10 THEN <<Digits[n + 1]>> ELSE NatStr(n \div 10) \o <<Digits[(n % 10) + 1]>>

RECURSIVE ZeroPad(_, _)
ZeroPad(s, width) == IF Len(s) >= width THEN s ELSE ZeroPad(<<"0">> \o s, width)

Abs(n) == IF n < 0 THEN -n ELSE n

\* format(x, ".3f") of a float held in thousandths.
Format3f(v) ==
    IF IsNaN(v) THEN <<"nan">>
    ELSE (IF v.n < 0 THEN <<"-">> ELSE <<>>)
         \o NatStr(Abs(v.n) \div 1000) \o <<".">> \o ZeroPad(NatStr(Abs(v.n) % 1000), 3)

\* format(x, ".2f"): the thousandths digit is rounded away, a tie to even.
Format2f(v) ==
    IF IsNaN(v) THEN <<"nan">>
    ELSE LET a == Abs(v.n)
             q == a \div 10
             r == a % 10
             h == IF r > 5 \/ (r = 5 /\ q % 2 = 1) THEN q + 1 ELSE q
         IN (IF v.n < 0 /\ h > 0 THEN <<"-">> ELSE <<>>)
            \o NatStr(h \div 100) \o <<".">> \o ZeroPad(NatStr(h % 100), 2)

\* repr(x) of a name: None, or the string in quotes.
Repr(v) == IF v.t = "NoneType" THEN <<"None">> ELSE <<"'">> \o v.s \o <<"'">>

\* ------------------------------------------------ helpers: dates and times

Months == << <<"J", "a", "n">>, <<"F", "e", "b">>, <<"M", "a", "r">>, <<"A", "p", "r">>,
             <<"M", "a", "y">>, <<"J", "u", "n">>, <<"J", "u", "l">>, <<"A", "u", "g">>,
             <<"S", "e", "p">>, <<"O", "c", "t">>, <<"N", "o", "v">>, <<"D", "e", "c">> >>

DateTime(y, mo, d, h, mi) ==
    [t |-> "datetime", s |-> <<>>, n |-> (((y * 13 + mo) * 32 + d) * 24 + h) * 60 + mi]
Minute(v) == v.n % 60
Hour(v) == (v.n \div 60) % 24
Day(v) == (v.n \div (60 * 24)) % 32
Month(v) == (v.n \div (60 * 24 * 32)) % 13
Year(v) == v.n \div (60 * 24 * 32 * 13)

IsLeap(y) == (y % 4 = 0 /\ y % 100 # 0) \/ y % 400 = 0
DaysIn(y, mo) ==
    IF mo = 2 THEN (IF IsLeap(y) THEN 29 ELSE 28)
    ELSE IF mo \in {4, 6, 9, 11} THEN 30 ELSE 31

\* cd_to_datetime: a calendar date "YYYY-Mon-DD hh:mm" to a datetime.
cd_to_datetime(v) ==
    IF v.t # "str" THEN Raise("TypeError")
    ELSE LET s == v.s
             part(a, b) == SubSeq(s, a, b)
         IN IF /\ Len(s) = 17
               /\ s[5] = "-" /\ s[9] = "-" /\ s[12] = " " /\ s[15] = ":"
               /\ AllDigits(part(1, 4)) /\ AllDigits(part(10, 11))
               /\ AllDigits(part(13, 14)) /\ AllDigits(part(16, 17))
               /\ \E m \in 1..12 : Months[m] = part(6, 8)
            THEN LET y == IntVal(part(1, 4))
                     mo == CHOOSE m \in 1..12 : Months[m] = part(6, 8)
                     d == IntVal(part(10, 11))
                     h == IntVal(part(13, 14))
                     mi == IntVal(part(16, 17))
                 IN IF y >= 1 /\ d >= 1 /\ d <= DaysIn(y, mo) /\ h <= 23 /\ mi <= 59
                    THEN Ok(DateTime(y, mo, d, h, mi))
                    ELSE Raise("ValueError")
            ELSE Raise("ValueError")

\* datetime_to_str: "YYYY-MM-DD hh:mm", without seconds.
datetime_to_str(v) ==
    ZeroPad(NatStr(Year(v)), 4) \o <<"-">> \o ZeroPad(NatStr(Month(v)), 2) \o <<"-">>
    \o ZeroPad(NatStr(Day(v)), 2) \o <<" ">> \o ZeroPad(NatStr(Hour(v)), 2) \o <<":">>
    \o ZeroPad(NatStr(Minute(v)), 2)

\* ------------------------------------------------- models: NearEarthObject

EmptyHeap == [neos |-> <<>>, cas |-> <<>>, lists |-> <<>>]

\* A slip: the designation formatted as repr() does, in quotes.
NeoDesignationQuoted(designation) == Str(<<"'">> \o PyStr(designation).s \o <<"'">>)

NeoDesignation(designation) == PyStr(designation)

\* A slip: str(name), whatever the name.
NeoNameAlways(name) == PyStr(name)

NeoName(name) == IF Truthy(name) THEN PyStr(name) ELSE NoneVal

NeoDiameter(diameter) == PyFloat(diameter)

NeoHazardous(hazardous) == PyBool(hazardous)

\* A slip: one list made once (a default argument) and shared by every object.
NewApproachesShared(H) == 1

\* `self.approaches = []`: the address of a list allocated by this call.
NewApproaches(H) == Len(H.lists) + 1

\* NearEarthObject(designation, hazardous, name, diameter) on heap H: the
\* exception raised, or the heap with the new object and its address.
NearEarthObject(H, designation, hazardous, name, diameter) ==
    LET d == NeoDiameter(diameter)
        l == NewApproaches(H)
        self == [designation |-> NeoDesignation(designation),
                 name |-> NeoName(name),
                 diameter |-> d.val,
                 hazardous |-> NeoHazardous(hazardous),
                 approaches |-> l]
    IN IF d.exc # ""
       THEN [exc |-> d.exc, heap |-> H, ref |-> 0]
       ELSE [exc |-> "",
             heap |-> [neos |-> Append(H.neos, self),
                       cas |-> H.cas,
                       lists |-> IF l > Len(H.lists) THEN Append(H.lists, <<>>)
                                 ELSE H.lists],
             ref |-> Len(H.neos) + 1]

NeoFullname(o) ==
    IF Truthy(o.name)
    THEN o.designation.s \o <<" (">> \o o.name.s \o <<")">>
    ELSE o.designation.s

NeoRepr(o) ==
    <<"NearEarthObject(designation=">> \o Repr(o.designation)
    \o <<", name=">> \o Repr(o.name)
    \o <<", diameter=">> \o Format3f(o.diameter)
    \o <<", hazardous=">> \o (IF o.hazardous.n = 1 THEN <<"True">> ELSE <<"False">>)
    \o <<")">>

\* --------------------------------------------------- models: CloseApproach

\* `self.neo = None`: address 0 is None.
UnsetNeo == 0

\* CloseApproach(designation, dt, distance, velocity) on heap H.  The field
\* `designation` is the attribute `_designation`.
CloseApproach(H, designation, dt, distance, velocity) ==
    LET t == cd_to_datetime(dt)
        d == PyFloat(distance)
        v == PyFloat(velocity)
        exc == IF t.exc # "" THEN t.exc ELSE IF d.exc # "" THEN d.exc ELSE v.exc
        self == [designation |-> PyStr(designation),
                 time |-> t.val,
                 distance |-> d.val,
                 velocity |-> v.val,
                 neo |-> UnsetNeo]
    IN IF exc # ""
       THEN [exc |-> exc, heap |-> H, ref |-> 0]
       ELSE [exc |-> "",
             heap |-> [neos |-> H.neos, cas |-> Append(H.cas, self), lists |-> H.lists],
             ref |-> Len(H.cas) + 1]

time_str(a) == datetime_to_str(a.time)

\* A slip: a guard that turns the missing NEO into text.
NeoAttrFullnameGuarded(H, a) ==
    IF a.neo = UnsetNeo THEN Ok(Str(<<"None">>)) ELSE Ok(Str(NeoFullname(H.neos[a.neo])))

\* self.neo.fullname: None has no attribute fullname.
NeoAttrFullname(H, a) ==
    IF a.neo = UnsetNeo THEN Raise("AttributeError") ELSE Ok(Str(NeoFullname(H.neos[a.neo])))

\* CloseApproach.__str__
CloseApproachStr(H, a) ==
    LET f == NeoAttrFullname(H, a)
    IN IF f.exc # "" THEN Raise(f.exc)
       ELSE Ok(Str(<<"At ">> \o time_str(a) \o <<", '">> \o f.val.s
                   \o <<"' approaches Earth at a distance of ">> \o Format2f(a.distance)
                   \o <<" au and a velocity of ">> \o Format2f(a.velocity)
                   \o <<" km/s.">>))

\* format(self.neo, "!r"): repr(None) is "None".
NeoReprOf(H, a) == IF a.neo = UnsetNeo THEN <<"None">> ELSE NeoRepr(H.neos[a.neo])

\* A slip: __repr__ written as __str__ is, through self.neo.fullname.
CloseApproachReprFullname(H, a) ==
    LET f == NeoAttrFullname(H, a)
    IN IF f.exc # "" THEN Raise(f.exc)
       ELSE Ok(Str(<<"CloseApproach(time='">> \o time_str(a) \o <<"', distance=">>
                   \o Format2f(a.distance) \o <<", velocity=">> \o Format2f(a.velocity)
                   \o <<", neo=">> \o f.val.s \o <<")">>))

\* CloseApproach.__repr__
CloseApproachRepr(H, a) ==
    Ok(Str(<<"CloseApproach(time='">> \o time_str(a) \o <<"', distance=">>
           \o Format2f(a.distance) \o <<", velocity=">> \o Format2f(a.velocity)
           \o <<", neo=">> \o NeoReprOf(H, a) \o <<")">>))

\* ---------------------------------------------------- extract: load_neos

FirstExc(rs) ==
    IF \E i \in 1..Len(rs) : rs[i].exc # ""
    THEN rs[CHOOSE i \in 1..Len(rs) : rs[i].exc # "" /\ \A j \in 1..(i - 1) : rs[j].exc = ""].exc
    ELSE ""

\* A slip: the empty diameter passed on as it is.
LoadDiameterRaw(v) == v

\* diameter=item["diameter"] if item["diameter"] != "" else "nan"
LoadDiameter(v) == IF v # Str(<<>>) THEN v ELSE Str(<<"n", "a", "n">>)

\* A slip: the flag itself passed on, for the constructor's bool() to judge.
LoadHazardousRaw(v) == v

\* hazardous=True if item["pha"] == "Y" else False
LoadHazardous(v) == Bool(v = Str(<<"Y">>))

\* The body of the try: the arguments are read from the row, then the object
\* is constructed.
NeoFromRow(H, item) ==
    LET pdes == GetItem(item, "pdes")
        name == GetItem(item, "name")
        diameter == GetItem(item, "diameter")
        pha == GetItem(item, "pha")
        exc == FirstExc(<<pdes, name, diameter, pha>>)
    IN IF exc # ""
       THEN [exc |-> exc, heap |-> H, ref |-> 0]
       ELSE NearEarthObject(H, pdes.val, LoadHazardous(pha.val), name.val,
                            LoadDiameter(diameter.val))

\* A slip: no else, so that after a failure the previous object is appended again.
LoadNeosStepStale(st, item) ==
    LET r == NeoFromRow(st.heap, item)
    IN IF r.exc # ""
       THEN (IF st.val = <<>> THEN st
             ELSE [heap |-> st.heap, val |-> Append(st.val, st.val[Len(st.val)])])
       ELSE [heap |-> r.heap, val |-> Append(st.val, r.ref)]

\* One turn of the loop: try / except (the message is printed) / else append.
LoadNeosStep(st, item) ==
    LET r == NeoFromRow(st.heap, item)
    IN IF r.exc # "" THEN st
       ELSE [heap |-> r.heap, val |-> Append(st.val, r.ref)]

RECURSIVE LoadNeosLoop(_, _)
LoadNeosLoop(st, rows) ==
    IF rows = <<>> THEN st ELSE LoadNeosLoop(LoadNeosStep(st, Head(rows)), Tail(rows))

load_neos(H, rows) == LoadNeosLoop([heap |-> H, val |-> <<>>], rows)

\* ----------------------------------------------- extract: load_approaches

CaFromRow(H, item) ==
    LET des == GetItem(item, "des")
        cd == GetItem(item, "cd")
        dist == GetItem(item, "dist")
        v_rel == GetItem(item, "v_rel")
        exc == FirstExc(<<des, cd, dist, v_rel>>)
    IN IF exc # ""
       THEN [exc |-> exc, heap |-> H, ref |-> 0]
       ELSE CloseApproach(H, des.val, cd.val, dist.val, v_rel.val)

\* A slip: the new object put first, not last.
LoadApproachesStepFirst(st, item) ==
    LET r == CaFromRow(st.heap, item)
    IN IF r.exc # "" THEN st
       ELSE [heap |-> r.heap, val |-> <<r.ref>> \o st.val]

\* One turn of the loop: try / except (printed, continue) / else append.
LoadApproachesStep(st, item) ==
    LET r == CaFromRow(st.heap, item)
    IN IF r.exc # "" THEN st
       ELSE [heap |-> r.heap, val |-> Append(st.val, r.ref)]

RECURSIVE LoadApproachesLoop(_, _)
LoadApproachesLoop(st, rows) ==
    IF rows = <<>> THEN st
    ELSE LoadApproachesLoop(LoadApproachesStep(st, Head(rows)), Tail(rows))

load_approaches(H, rows) == LoadApproachesLoop([heap |-> H, val |-> <<>>], rows)

\* ------------------------------------------------- database: NEODatabase

\* The mapping from designation to NearEarthObject: the last one loaded wins.
NeosByDesignation(H, ns) ==
    [d \in {H.neos[ns[i]].designation : i \in 1..Len(ns)} |->
        ns[CHOOSE i \in 1..Len(ns) :
              /\ H.neos[ns[i]].designation = d
              /\ \A j \in (i + 1)..Len(ns) : H.neos[ns[j]].designation # d]]

\* One approach linked: its neo is set and it is appended to the NEO's list.
LinkOne(H, byDes, a) ==
    LET d == H.cas[a].designation
    IN IF d \in DOMAIN byDes
       THEN LET n == byDes[d]
                l == H.neos[n].approaches
            IN [neos |-> H.neos,
                cas |-> [H.cas EXCEPT ![a].neo = n],
                lists |-> [H.lists EXCEPT ![l] = Append(@, a)]]
       ELSE H

RECURSIVE LinkAll(_, _, _)
LinkAll(H, byDes, as) ==
    IF as = <<>> THEN H ELSE LinkAll(LinkOne(H, byDes, Head(as)), byDes, Tail(as))

NEODatabase(H, ns, as) ==
    LET byDes == NeosByDesignation(H, ns)
    IN [heap |-> LinkAll(H, byDes, as),
        db |-> [built |-> TRUE, neos |-> ns, approaches |-> as, byDes |-> byDes]]

\* ------------------------------------------------------------------ inputs

D433 == <<"4", "3", "3">>
D7 == <<"7">>
D99 == <<"9", "9">>
Eros == <<"E", "r", "o", "s">>
Cd1900 == <<"1", "9", "0", "0", "-", "J", "a", "n", "-", "0", "1", " ", "1", "2", ":", "0", "0">>
Cd2020 == <<"2", "0", "2", "0", "-", "D", "e", "c", "-", "3", "1", " ", "2", "3", ":", "5", "9">>
CdBad == <<"1", "9", "0", "0", "-", "0", "1", "-", "0", "1", " ", "1", "2", ":", "0", "0">>

NeoRow(pdes, name, diameter, pha) ==
    [pdes |-> pdes, name |-> name, diameter |-> diameter, pha |-> pha]
CaRow(des, cd, dist, v_rel) == [des |-> des, cd |-> cd, dist |-> dist, v_rel |-> v_rel]

SeqsUpTo(S, n) == UNION {[1..k -> S] : k \in 0..n}

\* Rows of the NEO file: a plain one, one with the same designation and no
\* name or diameter, one with a diameter that is no number, one with no
\* designation, one more plain one.
NeoRows ==
    { NeoRow(Str(D433), Str(Eros), Str(<<"1", "6", ".", "8", "4">>), Str(<<"N">>)),
      NeoRow(Str(D433), Str(<<>>), Str(<<>>), Str(<<"Y">>)),
      NeoRow(Str(D7), Str(<<"A", "b">>), Str(<<"a", "b">>), Str(<<"Y">>)),
      NeoRow(Str(<<>>), Str(<<>>), Str(<<"1", ".", "5">>), Str(<<"y">>)),
      NeoRow(Str(D99), Str(<<>>), Str(<<>>), Str(<<"N">>)) }

\* Rows of the close-approach file: a plain one, one of a designation no NEO
\* has (its velocity a JSON number), one with a date in another format, one
\* that is too short to have a v_rel.
CaRows ==
    { CaRow(Str(D433), Str(Cd1900), Str(<<"0", ".", "3", "5">>), Str(<<"5", ".", "1">>)),
      CaRow(Str(D99), Str(Cd2020), Str(<<"0", ".", "1", "2", "5">>), Float(12500)),
      CaRow(Str(D433), Str(CdBad), Str(<<"0", ".", "3", "5">>), Str(<<"5", ".", "1">>)),
      CaRow(Str(D7), Str(Cd1900), Str(<<"0", ".", "5">>), Absent) }

NeoFiles == SeqsUpTo(NeoRows, MaxRows)
CaFiles == SeqsUpTo(CaRows, MaxRows)

\* Every combination of name, diameter and hazard flag a CSV row can hold
\* (None is the value DictReader gives a field the row is too short for).
NameInputs == {Str(<<>>), Str(Eros), NoneVal}
DiameterInputs ==
    { Str(<<>>), Str(<<"1", "6", ".", "8", "4">>), Str(<<"a", "b">>),
      Str(<<"N", "a", "N">>), Str(<<" ", "2", " ">>) }
PhaInputs == {Str(<<"Y">>), Str(<<"N">>), Str(<<"y">>), Str(<<>>)}
AllNeoRows ==
    {NeoRow(Str(D433), n, d, p) : n \in NameInputs, d \in DiameterInputs, p \in PhaInputs}
AllNeoFiles == SeqsUpTo(AllNeoRows, MaxRows)

\* Arguments of a direct NearEarthObject(...) call; an omitted name is None
\* and an omitted diameter is "nan".
DefaultName == NoneVal
DefaultDiameter == Str(<<"n", "a", "n">>)
NeoCalls ==
    {<<Str(D433), Bool(FALSE), n, d>> :
        n \in {DefaultName, Str(<<>>), Str(Eros)},
        d \in {DefaultDiameter, Str(<<>>), Str(<<"1", ".", "5">>)}}
    \cup {<<Str(D433), Bool(FALSE), Str(Eros), d>> :
            d \in {Str(<<"a", "b">>), NoneVal, Float(2500)}}
    \cup {<<Str(D7), h, DefaultName, DefaultDiameter>> :
            h \in {Bool(TRUE), Str(<<"N">>), Str(<<>>)}}
CaCalls ==
    { <<Str(D433), Str(Cd1900), Str(<<"0", ".", "3", "5">>), Float(5100)>>,
      <<Str(D99), Str(CdBad), Float(125), Str(<<"x">>)>> }

\* The files the loaders read beside direct construction.
FewNeoFiles ==
    SeqsUpTo({NeoRow(Str(D433), Str(Eros), Str(<<"1", "6", ".", "8", "4">>), Str(<<"N">>)),
              NeoRow(Str(D433), Str(<<>>), Str(<<>>), Str(<<"Y">>))}, 1)
FewCaFiles ==
    SeqsUpTo({CaRow(Str(D433), Str(Cd1900), Str(<<"0", ".", "3", "5">>),
                    Str(<<"5", ".", "1">>))}, 1)

\* ------------------------------------------------------------------- state

NoCall == [op |-> "", args |-> <<>>, exc |-> "", ref |-> 0, val |-> NoneVal]
NotReturned == [done |-> FALSE, val |-> <<>>]
Returned(v) == [done |-> TRUE, val |-> v]
NoDatabase == [built |-> FALSE, neos |-> <<>>, approaches |-> <<>>, byDes |-> <<>>]

Init ==
    /\ neoCsv = <<>>
    /\ cadJson = <<>>
    /\ heap = EmptyHeap
    /\ neos = NotReturned
    /\ approaches = NotReturned
    /\ db = NoDatabase
    /\ out = NoCall

\* ----------------------------------------------------------------- actions

\* neos = load_neos(path), the file at path holding rows.
LoadNeos(rows) ==
    LET r == load_neos(heap, rows)
    IN /\ neoCsv' = rows
       /\ heap' = r.heap
       /\ neos' = Returned(r.val)
       /\ UNCHANGED <<cadJson, approaches, db, out>>

\* approaches = load_approaches(path)
LoadApproaches(rows) ==
    LET r == load_approaches(heap, rows)
    IN /\ cadJson' = rows
       /\ heap' = r.heap
       /\ approaches' = Returned(r.val)
       /\ UNCHANGED <<neoCsv, neos, db, out>>

\* NEODatabase(neos, approaches)
BuildDatabase ==
    /\ neos.done /\ approaches.done /\ ~db.built
    /\ LET r == NEODatabase(heap, neos.val, approaches.val)
       IN heap' = r.heap /\ db' = r.db
    /\ UNCHANGED <<neoCsv, cadJson, neos, approaches, out>>

\* str(approach)
CallStr(a) ==
    /\ LET r == CloseApproachStr(heap, heap.cas[a])
       IN out' = [op |-> "str", args |-> <<>>, exc |-> r.exc, ref |-> a, val |-> r.val]
    /\ UNCHANGED <<neoCsv, cadJson, heap, neos, approaches, db>>

\* repr(approach)
CallRepr(a) ==
    /\ LET r == CloseApproachRepr(heap, heap.cas[a])
       IN out' = [op |-> "repr", args |-> <<>>, exc |-> r.exc, ref |-> a, val |-> r.val]
    /\ UNCHANGED <<neoCsv, cadJson, heap, neos, approaches, db>>

\* NearEarthObject(designation, hazardous, name, diameter), called directly
NewNeo(args) ==
    /\ LET r == NearEarthObject(heap, args[1], args[2], args[3], args[4])
       IN /\ heap' = r.heap
          /\ out' = [op |-> "NearEarthObject", args |-> args, exc |-> r.exc,
                     ref |-> r.ref, val |-> NoneVal]
    /\ UNCHANGED <<neoCsv, cadJson, neos, approaches, db>>

\* CloseApproach(designation, dt, distance, velocity), called directly
NewCa(args) ==
    /\ LET r == CloseApproach(heap, args[1], args[2], args[3], args[4])
       IN /\ heap' = r.heap
          /\ out' = [op |-> "CloseApproach", args |-> args, exc |-> r.exc,
                     ref |-> r.ref, val |-> NoneVal]
    /\ UNCHANGED <<neoCsv, cadJson, neos, approaches, db>>

\* ---------------------------------------------------------- specifications

\* The program: both files are loaded, the database is built from what the
\* loaders returned, and approaches are printed at any time.
Next ==
    \/ ~neos.done /\ \E rows \in NeoFiles : LoadNeos(rows)
    \/ ~approaches.done /\ \E rows \in CaFiles : LoadApproaches(rows)
    \/ BuildDatabase
    \/ \E a \in 1..Len(heap.cas) : CallStr(a)
    \/ \E a \in 1..Len(heap.cas) : CallRepr(a)

Spec == Init /\ [][Next]_vars

\* load_neos on every file of up to MaxRows rows.
NextLoad == ~neos.done /\ \E rows \in AllNeoFiles : LoadNeos(rows)

SpecLoad == Init /\ [][NextLoad]_vars

\* Construction and loading, before any database: objects are constructed
\* directly and by the loaders, in any order.
NextCtor ==
    \/ Len(heap.neos) < MaxObjs /\ \E args \in NeoCalls : NewNeo(args)
    \/ Len(heap.cas) < MaxObjs /\ \E args \in CaCalls : NewCa(args)
    \/ ~neos.done /\ \E rows \in FewNeoFiles : LoadNeos(rows)
    \/ ~approaches.done /\ \E rows \in FewCaFiles : LoadApproaches(rows)

SpecCtor == Init /\ [][NextCtor]_vars

\* ------------------------------------------------------------- properties

Range(s) == {s[i] : i \in 1..Len(s)}

NeoRowOk(item) == NeoFromRow(EmptyHeap, item).exc = ""
CaRowOk(item) == CaFromRow(EmptyHeap, item).exc = ""

\* The rows of each file whose construction succeeds, in file order.
KeptNeoRows == SelectSeq(neoCsv, NeoRowOk)
KeptCaRows == SelectSeq(cadJson, CaRowOk)

NeoFields(o) == <<o.designation, o.name, o.diameter, o.hazardous>>
CaFields(a) == <<a.designation, a.time, a.distance, a.velocity>>

NeoAt(i) == heap.neos[neos.val[i]]
CaAt(i) == heap.cas[approaches.val[i]]

Linked(a) == a.neo \in 1..Len(heap.neos)

\* C1: load_neos and load_approaches each return exactly the objects built
\* from the rows whose construction succeeds, one object per such row, in
\* the order of the file; a row whose construction raises is dropped and
\* the rows before and after it are not affected.
C1_LoadKeepsGoodRowsInOrder ==
    /\ neos.done =>
         LET kept == KeptNeoRows
         IN /\ Len(neos.val) = Len(kept)
            /\ \A i \in 1..Len(neos.val) :
                 /\ neos.val[i] \in 1..Len(heap.neos)
                 /\ NeoFields(NeoAt(i))
                      = NeoFields(NeoFromRow(EmptyHeap, kept[i]).heap.neos[1])
                 /\ \A j \in 1..Len(neos.val) : i # j => neos.val[i] # neos.val[j]
    /\ approaches.done =>
         LET kept == KeptCaRows
         IN /\ Len(approaches.val) = Len(kept)
            /\ \A i \in 1..Len(approaches.val) :
                 /\ approaches.val[i] \in 1..Len(heap.cas)
                 /\ CaFields(CaAt(i))
                      = CaFields(CaFromRow(EmptyHeap, kept[i]).heap.cas[1])
                 /\ \A j \in 1..Len(approaches.val) :
                      i # j => approaches.val[i] # approaches.val[j]

\* Both files loaded: a bad row before a good one in the one, a good row
\* before a bad one in the other, and one object returned from each.
C1_Witness ==
    /\ neos.done /\ approaches.done
    /\ Len(neoCsv) = 2 /\ ~NeoRowOk(neoCsv[1]) /\ NeoRowOk(neoCsv[2])
    /\ Len(neos.val) = 1
    /\ Len(cadJson) = 2 /\ CaRowOk(cadJson[1]) /\ ~CaRowOk(cadJson[2])
    /\ Len(approaches.val) = 1

\* The i-th returned approach is linked to the j-th returned NEO, each way.
LinkedBothWays(i, j) ==
    /\ CaAt(i).neo = neos.val[j]
    /\ approaches.val[i] \in Range(heap.lists[NeoAt(j).approaches])

\* C2 as stated: once the database is built, an approach is linked both ways
\* to every loaded NEO whose row has the approach's designation.
C2_LinkedToEveryNeoOfDesignation ==
    db.built =>
      LET kn == KeptNeoRows
          ka == KeptCaRows
      IN \A i \in 1..Len(ka), j \in 1..Len(kn) :
           ka[i].des = kn[j].pdes => LinkedBothWays(i, j)

\* C2, amended: once the database is built, an approach is linked both ways
\* to the last loaded NEO whose row has the approach's designation.
C2_LinkedToLastNeoOfDesignation ==
    db.built =>
      LET kn == KeptNeoRows
          ka == KeptCaRows
      IN \A i \in 1..Len(ka), j \in 1..Len(kn) :
           ( /\ ka[i].des = kn[j].pdes
             /\ \A k \in (j + 1)..Len(kn) : kn[k].pdes # kn[j].pdes )
           => LinkedBothWays(i, j)

\* The database built over two NEOs of one designation and an approach of
\* that designation, which is linked to the second.
C2_Witness ==
    /\ db.built
    /\ Len(neos.val) = 2 /\ Len(approaches.val) >= 1
    /\ KeptNeoRows[1].pdes = KeptNeoRows[2].pdes
    /\ KeptCaRows[1].des = KeptNeoRows[2].pdes
    /\ LinkedBothWays(1, 2)

\* C3: an object load_neos returns is hazardous exactly when the pha field
\* of its row is the string "Y".
C3_HazardousIffFlagIsY ==
    neos.done =>
      LET kept == KeptNeoRows
      IN /\ Len(neos.val) = Len(kept)
         /\ \A i \in 1..Len(neos.val) :
              /\ NeoAt(i).hazardous.t = "bool"
              /\ NeoAt(i).hazardous.n = 1
                   <=> (kept[i].pha.t = "str" /\ kept[i].pha.s = <<"Y">>)

\* A file loaded with a row flagged "y", not hazardous, and a row flagged
\* "Y", hazardous.
C3_Witness ==
    /\ neos.done /\ Len(neos.val) = 2
    /\ KeptNeoRows[1].pha = Str(<<"y">>) /\ NeoAt(1).hazardous.n = 0
    /\ KeptNeoRows[2].pha = Str(<<"Y">>) /\ NeoAt(2).hazardous.n = 1

\* What cannot be read as a number: the empty string, text, None.
Unparseable(v) == v \in {Str(<<>>), Str(<<"a", "b">>), NoneVal}

\* C4 as stated: NearEarthObject(...) never raises because of its diameter;
\* a diameter that cannot be read as a number becomes not-a-number.
C4_ConstructionNeverRaisesOnDiameter ==
    out.op = "NearEarthObject" =>
      /\ out.exc = ""
      /\ Unparseable(out.args[4]) => IsNaN(heap.neos[out.ref].diameter)

\* The diameter the row's text stands for, in thousandths.
Measured(v) ==
    CASE v = Str(<<"1", "6", ".", "8", "4">>) -> 16840
      [] v = Str(<<" ", "2", " ">>) -> 2000
      [] OTHER -> -1

\* The rows load_neos is to keep: every row but those whose diameter is text.
NotText(item) == item.diameter # Str(<<"a", "b">>)

\* C5: a row whose diameter is the empty string is kept, and its object's
\* diameter is not-a-number, equal to no measurement; a row whose diameter
\* reads as a number keeps that number.
C5_EmptyDiameterIsNaN ==
    neos.done =>
      LET want == SelectSeq(neoCsv, NotText)
      IN /\ Len(neos.val) = Len(want)
         /\ \A i \in 1..Len(neos.val) :
              /\ want[i].diameter = Str(<<>>) =>
                   /\ IsNaN(NeoAt(i).diameter)
                   /\ \A m \in {0, 2000, 16840} : NeoAt(i).diameter # Float(m)
              /\ Measured(want[i].diameter) >= 0 =>
                   NeoAt(i).diameter = Float(Measured(want[i].diameter))

\* A file loaded with a row of empty diameter and a row of diameter 16.84,
\* both kept.
C5_Witness ==
    /\ neos.done /\ Len(neoCsv) = 2 /\ Len(neos.val) = 2
    /\ neoCsv[1].diameter = Str(<<>>) /\ IsNaN(NeoAt(1).diameter)
    /\ neoCsv[2].diameter = Str(<<"1", "6", ".", "8", "4">>)
    /\ NeoAt(2).diameter = Float(16840)

\* The name a name input is to give: None for an empty or absent one, the
\* input itself otherwise.
NameFor(v) == IF v = NoneVal \/ v = Str(<<>>) THEN NoneVal ELSE v

\* C6: the name of every NearEarthObject, constructed directly or by
\* load_neos, is None or a non-empty string: None when the name given is
\* empty or absent, the name given otherwise.
C6_NameIsNoneOrNonEmpty ==
    /\ \A n \in 1..Len(heap.neos) :
         \/ heap.neos[n].name = NoneVal
         \/ heap.neos[n].name.t = "str" /\ Len(heap.neos[n].name.s) > 0
    /\ (out.op = "NearEarthObject" /\ out.exc = "") =>
         heap.neos[out.ref].name = NameFor(out.args[3])
    /\ neos.done =>
         /\ Len(neos.val) = Len(neoCsv)
         /\ \A i \in 1..Len(neos.val) : NeoAt(i).name = NameFor(neoCsv[i].name)

\* An object constructed with the empty name and an object loaded from a
\* row with the empty name, both named None.
C6_Witness ==
    /\ out.op = "NearEarthObject" /\ out.exc = "" /\ out.args[3] = Str(<<>>)
    /\ heap.neos[out.ref].name = NoneVal
    /\ neos.done /\ Len(neos.val) = 1 /\ neoCsv[1].name = Str(<<>>)
    /\ NeoAt(1).name = NoneVal

NonEmptyAndDistinct(s) ==
    /\ \A i \in 1..Len(s) : s[i] # Str(<<>>)
    /\ \A i, j \in 1..Len(s) : i # j => s[i] # s[j]

\* C7 as stated: the designations of the objects load_neos returns are
\* non-empty and pairwise distinct.
C7_DesignationsNonEmptyAndUnique ==
    neos.done => NonEmptyAndDistinct([i \in 1..Len(neos.val) |-> NeoAt(i).designation])

\* C7, amended: each object load_neos returns has the designation of its
\* row, so the designations are non-empty and pairwise distinct whenever
\* those of the rows that construct are.
C7_DesignationsAreTheRows ==
    neos.done =>
      LET kept == KeptNeoRows
      IN /\ Len(neos.val) = Len(kept)
         /\ \A i \in 1..Len(neos.val) : NeoAt(i).designation = kept[i].pdes
         /\ NonEmptyAndDistinct([i \in 1..Len(kept) |-> kept[i].pdes])
              => NonEmptyAndDistinct([i \in 1..Len(neos.val) |-> NeoAt(i).designation])

\* A file loaded whose two rows have distinct designations, which the two
\* objects returned carry.
C7_Witness ==
    /\ neos.done /\ Len(neos.val) = 2
    /\ NonEmptyAndDistinct(<<KeptNeoRows[1].pdes, KeptNeoRows[2].pdes>>)
    /\ NeoAt(1).designation # NeoAt(2).designation

\* C8: before any database is built, every NearEarthObject's approaches is
\* an empty list of its own and no CloseApproach refers to a NEO.
C8_ConstructionNeverLinks ==
    /\ \A n \in 1..Len(heap.neos) :
         /\ heap.neos[n].approaches \in 1..Len(heap.lists)
         /\ heap.lists[heap.neos[n].approaches] = <<>>
         /\ \A m \in 1..Len(heap.neos) :
              n # m => heap.neos[n].approaches # heap.neos[m].approaches
    /\ \A a \in 1..Len(heap.cas) : ~Linked(heap.cas[a])

\* Two NEOs of the same designation as an approach, one constructed
\* directly and one loaded, and both approaches constructed and loaded.
C8_Witness ==
    /\ neos.done /\ Len(neos.val) = 1 /\ Len(heap.neos) = 2
    /\ approaches.done /\ Len(approaches.val) = 1 /\ Len(heap.cas) = 2
    /\ \A n \in 1..2 : heap.neos[n].designation = heap.cas[1].designation

\* C9: repr() of a CloseApproach returns text whether or not the approach
\* is linked: the text ends with None while neo is unset and with the
\* NEO's repr once it is linked.
C9_ReprNeverFails ==
    /\ \A a \in 1..Len(heap.cas) :
         LET r == CloseApproachRepr(heap, heap.cas[a])
             k == Len(r.val.s)
         IN /\ r.exc = "" /\ r.val.t = "str"
            /\ ~Linked(heap.cas[a]) => SubSeq(r.val.s, k - 1, k) = <<"None", ")">>
            /\ Linked(heap.cas[a]) =>
                 \E i \in 1..k :
                   SubSeq(r.val.s, i, k)
                     = NeoRepr(heap.neos[heap.cas[a].neo]) \o <<")">>
    /\ out.op = "repr" => out.exc = "" /\ out.val.t = "str"

\* The database built, repr() just called on an approach left unlinked,
\* beside an approach that is linked.
C9_Witness ==
    /\ db.built /\ out.op = "repr" /\ out.exc = ""
    /\ ~Linked(heap.cas[out.ref])
    /\ \E a \in 1..Len(heap.cas) : Linked(heap.cas[a])

\* C10: str() of a CloseApproach whose neo is unset raises; it returns text
\* only once neo refers to a NearEarthObject.
C10_StrFailsWhileUnlinked ==
    /\ \A a \in 1..Len(heap.cas) :
         LET r == CloseApproachStr(heap, heap.cas[a])
         IN IF Linked(heap.cas[a])
            THEN r.exc = "" /\ r.val.t = "str"
            ELSE r.exc = "AttributeError"
    /\ (out.op = "str" /\ out.exc = "") => Linked(heap.cas[out.ref])
    /\ (out.op = "str" /\ ~Linked(heap.cas[out.ref])) => out.exc = "AttributeError"

\* The database built, str() just failed on an approach no NEO matches,
\* beside a linked approach.
C10_Witness ==
    /\ db.built /\ out.op = "str" /\ out.exc = "AttributeError"
    /\ heap.cas[out.ref].designation \notin DOMAIN db.byDes
    /\ \E a \in 1..Len(heap.cas) : Linked(heap.cas[a])

====
